---------------------------- MODULE Spec2Model ----------------------------
(***************************************************************************)
(* Model of the asynchronous PDF job pipeline of web-app/app_async.py:     *)
(* the per-IP rate limiter (check_rate_limit), job submission              *)
(* (upload_file), the background executor (process_pdf_async) and the      *)
(* read path (job_status, download_file).                                  *)
(*                                                                         *)
(* Three specifications share the variables:                               *)
(*   SpecRate  sequential calls of check_rate_limit under a moving clock   *)
(*   SpecRace  concurrent calls of check_rate_limit, one dictionary        *)
(*             access per step (the source takes no lock)                  *)
(*   Spec      upload_file, the executor thread of each job and the        *)
(*             status/download readers, interleaved                        *)
(***************************************************************************)
EXTENDS Integers, Sequences, FiniteSets, TLC

-----------------------------------------------------------------------------
(* Program constants (app_async.py:44-45). *)
MAX_UPLOADS_PER_IP == 5
RATE_LIMIT_WINDOW == 3600

(* Bounds of the model. *)
\* the clock advances in steps of Quantum seconds, up to MaxClock
Quantum == 1200
MaxClock == 6000
\* calls of check_rate_limit in SpecRate
MaxCalls == 9
\* threads calling check_rate_limit concurrently in SpecRace, and their calls
MaxThreads == 2
MaxRaceCalls == 3
\* calls of upload_file, and jobs created, in Spec
MaxUploads == 2
MaxJobs == 1
\* calls of upload_file in SpecAdmit
MaxAdmitUploads == 6
\* jobs running side by side in SpecTwo
MaxTwoJobs == 2

IPs == {"ip1", "ip2"}
NoIP == "none"
\* the identity whose calls race in SpecRace and who uploads in Spec
Client == "ip1"

VARIABLES
    upload_attempts,   \* dict ip -> list of timestamps (app_async.py:43)
    clock,             \* time.time()
    admitted,          \* history: ip -> every timestamp check_rate_limit admitted
    lastCheck,         \* history: the last finished check_rate_limit call
    calls,             \* history: number of check_rate_limit calls made
    rl,                \* SpecRace: thread -> locals of its check_rate_limit call
    processing_jobs,   \* dict job_id -> job record (app_async.py:40)
    files,             \* the paths that exist in UPLOAD_FOLDER
    thr,               \* job_id -> its executor thread: pc, arguments, current_file
    invoked,           \* history: job_id -> the step programs the executor called
    sent,              \* history: job_id -> the send_email calls of the executor
    removed,           \* history: job_id -> the paths the executor passed to os.remove
    resp,              \* the response of the last request handled
    uploads            \* history: number of upload_file calls made

rateVars == <<upload_attempts, clock, admitted, lastCheck, calls>>
jobVars == <<processing_jobs, files, thr, invoked, sent, removed, resp, uploads>>
vars == <<upload_attempts, clock, admitted, lastCheck, calls, rl,
          processing_jobs, files, thr, invoked, sent, removed, resp, uploads>>

-----------------------------------------------------------------------------
(* Helpers on sequences and dictionaries. *)

Range(s) == {s[i] : i \in 1..Len(s)}

\* a dictionary is a function whose DOMAIN is its set of keys
EmptyDict == [k \in {} |-> <<>>]

DictSet(d, k, v) == [x \in (DOMAIN d) \cup {k} |-> IF x = k THEN v ELSE d[x]]

DictDel(d, k) == [x \in (DOMAIN d) \ {k} |-> d[x]]

\* number of entries of s satisfying "inside the window that ends at now"
InWindow(t, now) == now - t < RATE_LIMIT_WINDOW

CountInWindow(s, now) == Cardinality({i \in 1..Len(s) : InWindow(s[i], now) /\ s[i] <= now})

-----------------------------------------------------------------------------
(* check_rate_limit (app_async.py:91-110), as one sequential call. *)

\* [t for t in upload_attempts[ip] if current_time - t < RATE_LIMIT_WINDOW]
KeepRecent(s, now) == SelectSeq(s, LAMBDA t : InWindow(t, now))

\* a loop that filters every list and deletes none
CleanOldEntries_KeepEmpty(ua, now) == [ip \in DOMAIN ua |-> KeepRecent(ua[ip], now)]

\* the "Clean old entries" loop: every list filtered, empty lists deleted
CleanOldEntries(ua, now) ==
    LET kept == {ip \in DOMAIN ua : KeepRecent(ua[ip], now) # <<>>}
    IN  [ip \in kept |-> KeepRecent(ua[ip], now)]

\* the admission test of line 106
OverLimit_OffByOne(s) == Len(s) > MAX_UPLOADS_PER_IP
OverLimit(s) == Len(s) >= MAX_UPLOADS_PER_IP

\* what a denied call leaves in the list of its ip (line 107: nothing recorded)
OnDenied_Recorded(s, now) == Append(s, now)
OnDenied(s, now) == s

\* what an admitted call leaves in the list of its ip (line 109)
OnAdmitted(s, now) == Append(s, now)

\* the whole call: the dictionary afterwards and the value returned
check_rate_limit(ua, ip_address, now) ==
    LET cleaned == CleanOldEntries(ua, now)
        present == IF ip_address \in DOMAIN cleaned
                   THEN cleaned
                   ELSE DictSet(cleaned, ip_address, <<>>)
    IN  IF OverLimit(present[ip_address])
        THEN [attempts |-> DictSet(present, ip_address, OnDenied(present[ip_address], now)),
              result |-> FALSE]
        ELSE [attempts |-> DictSet(present, ip_address, OnAdmitted(present[ip_address], now)),
              result |-> TRUE]

\* the dictionary after n further sequential calls at time 0
RECURSIVE check_rate_limit_n(_, _, _)
check_rate_limit_n(ua, ip_address, n) ==
    IF n = 0 THEN ua
    ELSE check_rate_limit_n(check_rate_limit(ua, ip_address, 0).attempts, ip_address, n - 1)

-----------------------------------------------------------------------------
(* SpecRate: sequential calls under a moving clock. *)

NoResp == [req |-> "none", code |-> 0, job |-> 0, status |-> "", error |-> ""]

\* no job, no file, no request handled yet
InitJobs ==
    /\ processing_jobs = EmptyDict
    /\ files = {}
    /\ thr = EmptyDict
    /\ invoked = EmptyDict
    /\ sent = EmptyDict
    /\ removed = EmptyDict
    /\ resp = NoResp
    /\ uploads = 0

InitRate ==
    /\ upload_attempts = EmptyDict
    /\ clock = 0
    /\ admitted = [ip \in IPs |-> <<>>]
    /\ lastCheck = [ip |-> NoIP, now |-> 0, result |-> TRUE]
    /\ calls = 0
    /\ rl = [t \in {} |-> 0]
    /\ InitJobs

\* time passes between requests
Tick ==
    /\ clock + Quantum <= MaxClock
    /\ clock' = clock + Quantum
    /\ UNCHANGED <<upload_attempts, admitted, lastCheck, calls, rl, jobVars>>

CheckRateLimit(ip) ==
    /\ calls < MaxCalls
    /\ LET r == check_rate_limit(upload_attempts, ip, clock)
       IN  /\ upload_attempts' = r.attempts
           /\ lastCheck' = [ip |-> ip, now |-> clock, result |-> r.result]
           /\ admitted' = IF r.result
                          THEN [admitted EXCEPT ![ip] = Append(@, clock)]
                          ELSE admitted
    /\ calls' = calls + 1
    /\ UNCHANGED <<clock, rl, jobVars>>

NextRate ==
    \/ Tick
    \/ \E ip \in IPs : CheckRateLimit(ip)

SpecRate == InitRate /\ [][NextRate]_vars


-----------------------------------------------------------------------------
(* SpecRace: check_rate_limit called by several request threads of the     *)
(* same identity.  The source takes no lock, so a thread can be preempted  *)
(* between any two accesses of upload_attempts: one access per step.       *)
(* upload_attempts[k] on a missing key raises KeyError: the thread crashes *)
(* (the request is answered 500).                                          *)

Threads == 1..MaxThreads

IdleThread == [pc |-> "idle", current_time |-> 0, keys |-> <<>>, ip |-> NoIP, kept |-> <<>>]

\* the list of an identity after k admitted calls at time 0
Admitted0(k) == [i \in 1..k |-> 0]

\* Client has made no call yet, or is one call below the limit
InitRace ==
    /\ \E k \in {0, MAX_UPLOADS_PER_IP - 1} :
          /\ upload_attempts = check_rate_limit_n(EmptyDict, Client, k)
          /\ admitted = [ip \in IPs |-> IF ip = Client THEN Admitted0(k) ELSE <<>>]
    /\ clock = 0
    /\ lastCheck = [ip |-> NoIP, now |-> 0, result |-> TRUE]
    /\ calls = 0
    /\ rl = [t \in Threads |-> IdleThread]
    /\ InitJobs

\* the keys of the dictionary as a list (only Client calls: at most one key)
KeyList(ua) == IF Client \in DOMAIN ua THEN <<Client>> ELSE <<>>

\* the loop of line 96 goes to its next key, or ends
LoopNext(keys) == IF keys = <<>> THEN "check_in" ELSE "filter"

RaceTick ==
    /\ clock + Quantum <= MaxClock
    /\ clock' = clock + Quantum
    /\ UNCHANGED <<upload_attempts, admitted, lastCheck, calls, rl, jobVars>>

\* line 93: current_time = time.time()
RaceCall(t) ==
    /\ rl[t].pc = "idle"
    /\ calls < MaxRaceCalls
    /\ calls' = calls + 1
    /\ rl' = [rl EXCEPT ![t] = [IdleThread EXCEPT !.pc = "keys", !.current_time = clock]]
    /\ UNCHANGED <<upload_attempts, clock, admitted, lastCheck, jobVars>>

\* line 96: list(upload_attempts.keys())
RaceKeys(t) ==
    /\ rl[t].pc = "keys"
    /\ LET ks == KeyList(upload_attempts)
       IN  rl' = [rl EXCEPT ![t].pc = LoopNext(ks),
                            ![t].ip = IF ks = <<>> THEN NoIP ELSE Head(ks),
                            ![t].keys = IF ks = <<>> THEN <<>> ELSE Tail(ks)]
    /\ UNCHANGED <<upload_attempts, clock, admitted, lastCheck, calls, jobVars>>

\* lines 97-98: the comprehension reads upload_attempts[ip]
RaceFilter(t) ==
    /\ rl[t].pc = "filter"
    /\ rl' = IF rl[t].ip \in DOMAIN upload_attempts
             THEN [rl EXCEPT ![t].pc = "store",
                             ![t].kept = KeepRecent(upload_attempts[rl[t].ip], rl[t].current_time)]
             ELSE [rl EXCEPT ![t].pc = "crashed"]
    /\ UNCHANGED <<upload_attempts, clock, admitted, lastCheck, calls, jobVars>>

\* line 97: upload_attempts[ip] = <the filtered list>
RaceStore(t) ==
    /\ rl[t].pc = "store"
    /\ upload_attempts' = DictSet(upload_attempts, rl[t].ip, rl[t].kept)
    /\ rl' = [rl EXCEPT ![t].pc = "test"]
    /\ UNCHANGED <<clock, admitted, lastCheck, calls, jobVars>>

\* line 99: if not upload_attempts[ip]
RaceTest(t) ==
    /\ rl[t].pc = "test"
    /\ rl' = IF rl[t].ip \notin DOMAIN upload_attempts
             THEN [rl EXCEPT ![t].pc = "crashed"]
             ELSE IF upload_attempts[rl[t].ip] = <<>>
             THEN [rl EXCEPT ![t].pc = "del"]
             ELSE [rl EXCEPT ![t].pc = LoopNext(rl[t].keys)]
    /\ UNCHANGED <<upload_attempts, clock, admitted, lastCheck, calls, jobVars>>

\* line 100: del upload_attempts[ip]
RaceDel(t) ==
    /\ rl[t].pc = "del"
    /\ IF rl[t].ip \in DOMAIN upload_attempts
       THEN /\ upload_attempts' = DictDel(upload_attempts, rl[t].ip)
            /\ rl' = [rl EXCEPT ![t].pc = LoopNext(rl[t].keys)]
       ELSE /\ rl' = [rl EXCEPT ![t].pc = "crashed"]
            /\ UNCHANGED upload_attempts
    /\ UNCHANGED <<clock, admitted, lastCheck, calls, jobVars>>

\* line 103: if ip_address not in upload_attempts
RaceCheckIn(t) ==
    /\ rl[t].pc = "check_in"
    /\ rl' = [rl EXCEPT ![t].pc = IF Client \in DOMAIN upload_attempts
                                  THEN "len" ELSE "set_empty"]
    /\ UNCHANGED <<upload_attempts, clock, admitted, lastCheck, calls, jobVars>>

\* line 104: upload_attempts[ip_address] = []
RaceSetEmpty(t) ==
    /\ rl[t].pc = "set_empty"
    /\ upload_attempts' = DictSet(upload_attempts, Client, <<>>)
    /\ rl' = [rl EXCEPT ![t].pc = "len"]
    /\ UNCHANGED <<clock, admitted, lastCheck, calls, jobVars>>

\* lines 106-107: the admission test; a denied call returns
RaceLen(t) ==
    /\ rl[t].pc = "len"
    /\ IF Client \notin DOMAIN upload_attempts
       THEN /\ rl' = [rl EXCEPT ![t].pc = "crashed"]
            /\ UNCHANGED lastCheck
       ELSE IF OverLimit(upload_attempts[Client])
       THEN /\ rl' = [rl EXCEPT ![t] = IdleThread]
            /\ lastCheck' = [ip |-> Client, now |-> rl[t].current_time, result |-> FALSE]
       ELSE /\ rl' = [rl EXCEPT ![t].pc = "append"]
            /\ UNCHANGED lastCheck
    /\ UNCHANGED <<upload_attempts, clock, admitted, calls, jobVars>>

\* lines 109-110: the append, and the admitted call returns
RaceAppend(t) ==
    /\ rl[t].pc = "append"
    /\ IF Client \notin DOMAIN upload_attempts
       THEN /\ rl' = [rl EXCEPT ![t].pc = "crashed"]
            /\ UNCHANGED <<upload_attempts, admitted, lastCheck>>
       ELSE /\ upload_attempts' = [upload_attempts EXCEPT
                                     ![Client] = Append(@, rl[t].current_time)]
            /\ admitted' = [admitted EXCEPT ![Client] = Append(@, rl[t].current_time)]
            /\ lastCheck' = [ip |-> Client, now |-> rl[t].current_time, result |-> TRUE]
            /\ rl' = [rl EXCEPT ![t] = IdleThread]
    /\ UNCHANGED <<clock, calls, jobVars>>

NextRace ==
    \/ RaceTick
    \/ \E t \in Threads :
          \/ RaceCall(t)
          \/ RaceKeys(t)
          \/ RaceFilter(t)
          \/ RaceStore(t)
          \/ RaceTest(t)
          \/ RaceDel(t)
          \/ RaceCheckIn(t)
          \/ RaceSetEmpty(t)
          \/ RaceLen(t)
          \/ RaceAppend(t)

SpecRace == InitRace /\ [][NextRace]_vars

-----------------------------------------------------------------------------
(* Claims on the sequential rate limiter. *)

\* the admitted timestamps of ip that lie in the window ending at now
AdmittedInWindow(ip, now) == SelectSeq(admitted[ip], LAMBDA t : now - t < RATE_LIMIT_WINDOW)

\* C2: for every identity and every window end e, at most MAX_UPLOADS_PER_IP
\* admitted calls have their timestamp in the trailing window (e - WINDOW, e];
\* a call is denied only when MAX_UPLOADS_PER_IP admitted timestamps are in
\* its window, and after any call (denied ones included) the list of the
\* identity holds exactly the admitted timestamps of the window: a denied call
\* records nothing, so it cannot postpone the next admission.
C2_SlidingWindow ==
    /\ \A ip \in IPs : \A e \in Range(admitted[ip]) \cup {clock} :
           CountInWindow(admitted[ip], e) <= MAX_UPLOADS_PER_IP
    /\ lastCheck.ip # NoIP =>
           /\ lastCheck.ip \in DOMAIN upload_attempts
           /\ upload_attempts[lastCheck.ip] = AdmittedInWindow(lastCheck.ip, lastCheck.now)
           /\ (~lastCheck.result =>
                 CountInWindow(admitted[lastCheck.ip], lastCheck.now) >= MAX_UPLOADS_PER_IP)
           /\ (lastCheck.result =>
                 upload_attempts[lastCheck.ip][Len(upload_attempts[lastCheck.ip])] = lastCheck.now)

\* a call denied although earlier admitted timestamps of the identity have
\* already left the window: the limit is counted over the window only
C2_Witness ==
    /\ lastCheck.ip # NoIP
    /\ ~lastCheck.result
    /\ Len(admitted[lastCheck.ip]) > MAX_UPLOADS_PER_IP
    /\ Len(upload_attempts[lastCheck.ip]) = MAX_UPLOADS_PER_IP

\* C22: after every sequential call of check_rate_limit the dictionary has
\* no identity with an empty list, every timestamp kept, of every identity,
\* is less than RATE_LIMIT_WINDOW older than the time of that call and not
\* later than it, and every list holds at most MAX_UPLOADS_PER_IP
\* timestamps in non-decreasing order.
C22_LimiterInvariant ==
    \A ip \in DOMAIN upload_attempts :
        LET s == upload_attempts[ip]
        IN  /\ s # <<>>
            /\ Len(s) <= MAX_UPLOADS_PER_IP
            /\ \A i \in 1..Len(s) : lastCheck.now - s[i] < RATE_LIMIT_WINDOW /\ s[i] <= lastCheck.now
            /\ \A i, k \in 1..Len(s) : i < k => s[i] <= s[k]

\* a call of one identity that evicted the other, whose only timestamp had
\* left the window, and that filled the list of the caller
C22_Witness ==
    /\ lastCheck.ip = "ip1" /\ lastCheck.result
    /\ admitted["ip2"] # <<>>
    /\ "ip2" \notin DOMAIN upload_attempts
    /\ "ip1" \in DOMAIN upload_attempts
    /\ Len(upload_attempts["ip1"]) = MAX_UPLOADS_PER_IP
    /\ upload_attempts["ip1"][1] < upload_attempts["ip1"][MAX_UPLOADS_PER_IP]

-----------------------------------------------------------------------------
(* Paths in UPLOAD_FOLDER.  A path is "<job_id>_<pre><stem><sfx><ext>":     *)
(* input_path has pre = "" and output_path pre = "fixed_" (lines 376-377), *)
(* sfx is the list of step suffixes inserted before the extension, and ext *)
(* is the extension as uploaded: allowed_file lowercases it before the     *)
(* test (line 88), secure_filename keeps its case.                         *)

Path(j, pre, ext) == [job |-> j, pre |-> pre, sfx |-> <<>>, ext |-> ext]

\* the value of a key of a job record that is not set
NoPath == [job |-> 0, pre |-> "", sfx |-> <<>>, ext |-> ""]
Unset == "unset"

\* current_file.replace('.pdf', tag + '.pdf'): str.replace is case-sensitive,
\* so a path without a lowercase ".pdf" comes back unchanged
Replace(p, tag) == IF p.ext = ".pdf" THEN [p EXCEPT !.sfx = Append(@, tag)] ELSE p

\* where a step program writes its output: the suffix before the extension
ToolOutput(p, tag) == [p EXCEPT !.sfx = Append(@, tag)]

-----------------------------------------------------------------------------
(* upload_file (app_async.py:308-414). *)

\* validate_email (lines 66-81): the pattern and the dangerous characters
validate_email(email) == email = "user@example.com"

\* an uploaded file: its name ("", "doc.txt", "doc.pdf", "doc.PDF", or a name
\* of more than MAX_FILENAME_LENGTH characters) and its size (zero, within
\* MAX_FILE_SIZE, or over it); NoFile: the request has no 'file' part
NoFile == [name |-> "absent", size |-> "zero"]
File(name, size) == [name |-> name, size |-> size]

\* the uploads tried: the two accepted filenames, and one file for each check
\* that can fail
GoodFiles == {File("doc.pdf", "ok"), File("doc.PDF", "ok")}
BadFiles == {NoFile, File("", "ok"), File("doc.txt", "ok"), File("doc.pdf", "over"),
             File("doc.pdf", "zero"), File("long.pdf", "ok")}
Requests ==
    [email : {"", "user@example.com"}, file : GoodFiles]
    \cup [email : {""}, file : BadFiles]
    \cup [email : {"user;rm@example.com"}, file : {File("doc.pdf", "ok")}]

\* allowed_file (lines 83-89): the extension, lowercased, is "pdf"
allowed_file(name) == name \in {"doc.pdf", "doc.PDF", "long.pdf"}

\* len(original_filename) > MAX_FILENAME_LENGTH (line 360)
TooLong(name) == name = "long.pdf"

\* the extension of the sanitized filename (lines 367-373)
Ext(name) == IF name = "doc.PDF" THEN ".PDF" ELSE ".pdf"

\* the validation of lines 336-361 and 414, in the order of the code:
\* "ok", or the error of the first check that fails
Validate(email, file) ==
    IF email # "" /\ ~validate_email(email) THEN "Invalid email address format"
    ELSE IF file = NoFile THEN "No file provided"
    ELSE IF file.name = "" THEN "No file selected"
    ELSE IF ~allowed_file(file.name) THEN "Invalid file type"
    ELSE IF file.size = "over" THEN "File size exceeds 100MB limit"
    ELSE IF file.size = "zero" THEN "File is empty"
    ELSE IF TooLong(file.name) THEN "Filename is too long"
    ELSE "ok"

\* the job entry of lines 388-394; 'error' and 'completed_at' are not keys yet
NewJob_NoPath(email, output_path) ==
    [status |-> "queued", email |-> email, output_path |-> NoPath,
     error |-> Unset, completed_at |-> FALSE]
NewJob(email, output_path) ==
    [status |-> "queued", email |-> email, output_path |-> output_path,
     error |-> Unset, completed_at |-> FALSE]

\* the attempts recorded when upload_file returns: check_rate_limit has run
\* (line 316) before anything is validated
RecordedAttempts_ValidateFirst(ua, r, err) == IF err # "ok" THEN ua ELSE r.attempts
RecordedAttempts(ua, r, err) == r.attempts

\* the arguments of the thread of lines 397-403, and its position
NewThread(input_path, output_path, email, do_ocr, add_page_numbers, compress, remove_security) ==
    [pc |-> "start", current_file |-> input_path,
     input_path |-> input_path, output_path |-> output_path, email |-> email,
     do_ocr |-> do_ocr, add_page_numbers |-> add_page_numbers,
     compress |-> compress, remove_security |-> remove_security]

\* a response: the request answered, the HTTP status, and the job id, job
\* status and error text of its JSON body
Response(req, code, job, status, error) ==
    [req |-> req, code |-> code, job |-> job, status |-> status, error |-> error]

\* the rate limiter runs first (line 316), then the validation, then the job
\* is created and its thread started
UploadFile(ip, email, file, do_ocr, add_page_numbers, compress, remove_security) ==
    LET r       == check_rate_limit(upload_attempts, ip, clock)
        err     == Validate(email, file)
        job_id  == Cardinality(DOMAIN processing_jobs) + 1
        inp     == Path(job_id, "", Ext(file.name))
        outp    == Path(job_id, "fixed_", Ext(file.name))
    IN  /\ uploads' = uploads + 1
        /\ upload_attempts' = RecordedAttempts(upload_attempts, r, err)
        /\ lastCheck' = [ip |-> ip, now |-> clock, result |-> r.result]
        /\ admitted' = IF r.result THEN [admitted EXCEPT ![ip] = Append(@, clock)]
                       ELSE admitted
        /\ IF ~r.result
           THEN /\ resp' = Response("upload", 429, 0, "", "Too many upload attempts")
                /\ UNCHANGED <<processing_jobs, files, thr, invoked, sent, removed>>
           ELSE IF err # "ok"
           THEN /\ resp' = Response("upload", 400, 0, "", err)
                /\ UNCHANGED <<processing_jobs, files, thr, invoked, sent, removed>>
           ELSE /\ files' = files \cup {inp}
                /\ processing_jobs' = DictSet(processing_jobs, job_id, NewJob(email, outp))
                /\ thr' = DictSet(thr, job_id,
                                  NewThread(inp, outp, email, do_ocr, add_page_numbers,
                                            compress, remove_security))
                /\ invoked' = DictSet(invoked, job_id, <<>>)
                /\ sent' = DictSet(sent, job_id, <<>>)
                /\ removed' = DictSet(removed, job_id, <<>>)
                /\ resp' = Response("upload", 200, job_id, "", "")
        /\ UNCHANGED <<clock, calls, rl>>

-----------------------------------------------------------------------------
(* process_pdf_async (app_async.py:131-301): the executor thread of a job. *)
(* A step program is external: it fails to start (subprocess raises), or   *)
(* runs and writes its output at the conventional path, or runs and writes *)
(* nothing (a non-zero exit of an optional step is not looked at).         *)

StepOutcomes == {"raise", "output", "nothing"}
\* the normalization script also has an exit status the code reads, and is
\* told output_path on its stdin (line 180)
FixOutputs == {"auto", "given", "none"}

\* the step that follows, in the fixed order of the code
AfterCompress(t) == "move"
AfterPagenum(t) == IF t.compress THEN "compress" ELSE AfterCompress(t)
AfterOcr(t) == IF t.add_page_numbers THEN "pagenum" ELSE AfterPagenum(t)
AfterFix(t) == IF t.do_ocr THEN "ocr" ELSE AfterOcr(t)
AfterStart_FixFirst(t) == "fix"
AfterStart(t) == IF t.remove_security THEN "unlock" ELSE "fix"

\* the files after a step program ran on cur and wrote (or not) its output
Ran(fs, cur, out, wrote) == IF wrote /\ cur \in fs THEN fs \cup {out} ELSE fs

\* lines 153-157, 196-205: "if os.path.exists(expected): if current_file !=
\* input_path: os.remove(current_file); current_file = expected"
KeepInput(t, fs, expected) ==
    IF expected \in fs
    THEN [found |-> TRUE, raised |-> FALSE,
          files |-> IF t.current_file # t.input_path THEN fs \ {t.current_file} ELSE fs,
          removed |-> IF t.current_file # t.input_path THEN <<t.current_file>> ELSE <<>>,
          current_file |-> expected]
    ELSE [found |-> FALSE, raised |-> FALSE, files |-> fs, removed |-> <<>>,
          current_file |-> t.current_file]

\* lines 224-227, 242-245, 260-263: "if os.path.exists(expected):
\* os.remove(current_file); current_file = expected"; os.remove raises on a
\* path that does not exist
DropCurrent(t, fs, expected) ==
    IF expected \in fs
    THEN [found |-> TRUE, raised |-> t.current_file \notin fs,
          files |-> fs \ {t.current_file},
          removed |-> <<t.current_file>>,
          current_file |-> expected]
    ELSE [found |-> FALSE, raised |-> FALSE, files |-> fs, removed |-> <<>>,
          current_file |-> t.current_file]

\* where the executor goes when the normalization script exits non-zero
\* (lines 182-194) and when no output file is found (lines 206-209)
OnFixExit_Ignored(rc) == "select"
OnFixExit(rc) == IF rc # 0 THEN "fail_status" ELSE "select"
OnNoOutput_Return == "finally"
OnNoOutput == "noout_status"

\* whether the failure branch of lines 206-209 sends the failure message
NoOutputMails(t) == FALSE

Log(h, j, x) == [h EXCEPT ![j] = Append(@, x)]

\* an executor that starts without writing the state
ExecStart_NoWrite(j) ==
    /\ j \in DOMAIN thr /\ thr[j].pc = "start"
    /\ thr' = [thr EXCEPT ![j].pc = AfterStart(thr[j])]
    /\ UNCHANGED <<processing_jobs, files, invoked, sent, removed, resp, uploads, rateVars, rl>>

\* line 135
ExecStart(j) ==
    /\ j \in DOMAIN thr /\ thr[j].pc = "start"
    /\ processing_jobs' = [processing_jobs EXCEPT ![j].status = "processing"]
    /\ thr' = [thr EXCEPT ![j].pc = AfterStart(thr[j])]
    /\ UNCHANGED <<files, invoked, sent, removed, resp, uploads, rateVars, rl>>

\* one optional step: the program is called on current_file, then the
\* conventional output path is looked for
OptionalStep(j, pc, name, tag, next, keep_input) ==
    /\ j \in DOMAIN thr /\ thr[j].pc = pc
    /\ \E outcome \in StepOutcomes :
          LET t   == thr[j]
              fs1 == Ran(files, t.current_file, ToolOutput(t.current_file, tag),
                         outcome = "output")
              e   == IF keep_input THEN KeepInput(t, fs1, Replace(t.current_file, tag))
                     ELSE DropCurrent(t, fs1, Replace(t.current_file, tag))
          IN  /\ invoked' = Log(invoked, j, [step |-> name, outcome |-> outcome])
              /\ IF outcome = "raise" \/ e.raised
                 THEN /\ thr' = [thr EXCEPT ![j].pc = "except_status"]
                      /\ UNCHANGED <<files, removed>>
                 ELSE /\ files' = e.files
                      /\ removed' = [removed EXCEPT ![j] = @ \o e.removed]
                      /\ thr' = [thr EXCEPT ![j].pc = next,
                                            ![j].current_file = e.current_file]
    /\ UNCHANGED <<processing_jobs, sent, resp, uploads, rateVars, rl>>

\* lines 140-157
StepUnlock(j) == OptionalStep(j, "unlock", "unlock", "-unlocked", "fix", TRUE)

\* lines 159-209: the normalization script, its exit status, and the search
\* for its output: the suffix path first, then output_path
StepFix(j) ==
    /\ j \in DOMAIN thr /\ thr[j].pc = "fix"
    /\ \E started \in BOOLEAN, rc \in {0, 1}, out \in FixOutputs :
          LET t    == thr[j]
              auto == Replace(t.current_file, "-FIXED")
              fs1  == IF out = "given"
                      THEN Ran(files, t.current_file, t.output_path, TRUE)
                      ELSE Ran(files, t.current_file, ToolOutput(t.current_file, "-FIXED"),
                               out = "auto")
              e    == IF auto \in fs1 THEN KeepInput(t, fs1, auto)
                      ELSE KeepInput(t, fs1, t.output_path)
              \* history: what the script did, as the caller can tell, and the
              \* file it wrote
              seen == IF ~started THEN "raise"
                      ELSE IF rc # 0 THEN "exit"
                      ELSE IF auto \in fs1 \/ t.output_path \in fs1 THEN "output"
                      ELSE "nothing"
          IN  /\ invoked' = Log(invoked, j, [step |-> "fix", outcome |-> seen,
                                              wrote |-> IF started THEN out ELSE "none"])
              /\ IF ~started
                 THEN /\ thr' = [thr EXCEPT ![j].pc = "except_status"]
                      /\ UNCHANGED <<files, removed>>
                 ELSE IF OnFixExit(rc) # "select"
                 THEN /\ files' = fs1
                      /\ thr' = [thr EXCEPT ![j].pc = OnFixExit(rc)]
                      /\ UNCHANGED removed
                 ELSE IF ~e.found
                 THEN /\ files' = fs1
                      /\ thr' = [thr EXCEPT ![j].pc = OnNoOutput]
                      /\ UNCHANGED removed
                 ELSE /\ files' = e.files
                      /\ removed' = [removed EXCEPT ![j] = @ \o e.removed]
                      /\ thr' = [thr EXCEPT ![j].pc = AfterFix(t),
                                            ![j].current_file = e.current_file]
    /\ UNCHANGED <<processing_jobs, sent, resp, uploads, rateVars, rl>>

\* lines 211-227, 229-245, 247-263
StepOcr(j) == OptionalStep(j, "ocr", "ocr", "-OCR", AfterOcr(thr[j]), FALSE)
StepPagenum(j) == OptionalStep(j, "pagenum", "pagenum", "-numbered", AfterPagenum(thr[j]), FALSE)
StepCompress(j) == OptionalStep(j, "compress", "compress", "-compressed", AfterCompress(thr[j]), FALSE)

\* an executor that goes on to the completion without moving anything
Move_Skipped(j) ==
    /\ j \in DOMAIN thr /\ thr[j].pc = "move"
    /\ thr' = [thr EXCEPT ![j].pc = "completed_status"]
    /\ UNCHANGED <<processing_jobs, files, invoked, sent, removed, resp, uploads, rateVars, rl>>

\* line 266: shutil.move(current_file, output_path) raises when the source
\* does not exist
Move(j) ==
    /\ j \in DOMAIN thr /\ thr[j].pc = "move"
    /\ LET t == thr[j]
       IN  IF t.current_file \in files
           THEN /\ files' = (files \ {t.current_file}) \cup {t.output_path}
                /\ thr' = [thr EXCEPT ![j].pc = "completed_status"]
           ELSE /\ thr' = [thr EXCEPT ![j].pc = "except_status"]
                /\ UNCHANGED files
    /\ UNCHANGED <<processing_jobs, invoked, sent, removed, resp, uploads, rateVars, rl>>

\* send_email (lines 112-129): the transport delivers or fails; the except
\* of line 127 turns every failure into the return value False
send_email_raises(delivered) == IF delivered THEN "True" ELSE "raise"
send_email(delivered) == IF delivered THEN "True" ELSE "False"

\* a write of the status that lands in the record of every job
SetStatus_AllJobs(j, pc, status, next) ==
    /\ j \in DOMAIN thr /\ thr[j].pc = pc
    /\ processing_jobs' = [k \in DOMAIN processing_jobs |->
                              [processing_jobs[k] EXCEPT !.status = status]]
    /\ thr' = [thr EXCEPT ![j].pc = next]
    /\ UNCHANGED <<files, invoked, sent, removed, resp, uploads, rateVars, rl>>

\* a write of processing_jobs[job_id]['status']
SetStatus(j, pc, status, next) ==
    /\ j \in DOMAIN thr /\ thr[j].pc = pc
    /\ processing_jobs' = [processing_jobs EXCEPT ![j].status = status]
    /\ thr' = [thr EXCEPT ![j].pc = next]
    /\ UNCHANGED <<files, invoked, sent, removed, resp, uploads, rateVars, rl>>

\* a write of processing_jobs[job_id]['error']
SetError(j, pc, detail, next) ==
    /\ j \in DOMAIN thr /\ thr[j].pc = pc
    /\ processing_jobs' = [processing_jobs EXCEPT ![j].error = detail]
    /\ thr' = [thr EXCEPT ![j].pc = next]
    /\ UNCHANGED <<files, invoked, sent, removed, resp, uploads, rateVars, rl>>

\* "if email: send_email(...)" inside the try block: an exception of the
\* call would reach the except handler of line 284
Mail(j, pc, kind, on_raise) ==
    /\ j \in DOMAIN thr /\ thr[j].pc = pc
    /\ \E delivered \in BOOLEAN :
          /\ sent' = Log(sent, j, [kind |-> kind, result |-> send_email(delivered)])
          /\ thr' = [thr EXCEPT ![j].pc = IF send_email(delivered) = "raise"
                                          THEN on_raise ELSE "finally"]
    /\ UNCHANGED <<processing_jobs, files, invoked, removed, resp, uploads, rateVars, rl>>

MailOr_Always(t, pc) == pc
MailOr(t, pc) == IF t.email # "" THEN pc ELSE "finally"

\* lines 182-194: non-zero exit of the normalization script
FailStatus(j) == SetStatus(j, "fail_status", "failed", "fail_error")
FailError(j) == SetError(j, "fail_error", "stderr", MailOr(thr[j], "fail_mail"))
FailMail(j) == Mail(j, "fail_mail", "failure", "except_status")

\* lines 206-209: no output file found
NoOutputStatus(j) == SetStatus(j, "noout_status", "failed", "noout_error")
NoOutputError(j) ==
    SetError(j, "noout_error", "Output file was not created",
             IF NoOutputMails(thr[j]) THEN MailOr(thr[j], "fail_mail") ELSE "finally")

\* lines 268-282: completion
CompletedStatus(j) == SetStatus(j, "completed_status", "completed", "completed_at")
CompletedAt(j) ==
    /\ j \in DOMAIN thr /\ thr[j].pc = "completed_at"
    /\ processing_jobs' = [processing_jobs EXCEPT ![j].completed_at = TRUE]
    /\ thr' = [thr EXCEPT ![j].pc = MailOr(thr[j], "ok_mail")]
    /\ UNCHANGED <<files, invoked, sent, removed, resp, uploads, rateVars, rl>>
OkMail(j) == Mail(j, "ok_mail", "success", "except_status")

\* an exception nobody catches: the thread ends, the record is left as it is
ExceptStatus_Uncaught(j) ==
    /\ j \in DOMAIN thr /\ thr[j].pc = "except_status"
    /\ thr' = [thr EXCEPT ![j].pc = "returned"]
    /\ UNCHANGED <<processing_jobs, files, invoked, sent, removed, resp, uploads, rateVars, rl>>

\* lines 284-297: the except handler
ExceptStatus(j) == SetStatus(j, "except_status", "failed", "except_error")
ExceptError(j) == SetError(j, "except_error", "exception", MailOr(thr[j], "except_mail"))
ExceptMail(j) == Mail(j, "except_mail", "failure", "finally")

\* lines 298-301: "if os.path.exists(input_path): os.remove(input_path)"
Finally(j) ==
    /\ j \in DOMAIN thr /\ thr[j].pc = "finally"
    /\ LET t == thr[j]
       IN  /\ files' = files \ {t.input_path}
           /\ removed' = IF t.input_path \in files
                         THEN Log(removed, j, t.input_path) ELSE removed
    /\ thr' = [thr EXCEPT ![j].pc = "returned"]
    /\ UNCHANGED <<processing_jobs, invoked, sent, resp, uploads, rateVars, rl>>

-----------------------------------------------------------------------------
(* The read path: job_status (lines 416-440), download_file (442-473).     *)
(* Each handler reads the shared dictionary with no lock.                  *)

\* the ids a request can carry: BadId is a string that uuid.UUID rejects, the
\* others are well-formed; NeverId is well-formed and never given to a job
BadId == 0
NeverId == MaxJobs + 1
IsUUID(job_id) == job_id # BadId

\* the response of job_status: 'error' is added only for a failed job whose
\* record has the key
job_status(jobs, job_id) ==
    IF ~IsUUID(job_id)
    THEN Response("status", 400, job_id, "", "Invalid job ID")
    ELSE IF job_id \notin DOMAIN jobs
    THEN Response("status", 404, job_id, "", "Job not found")
    ELSE Response("status", 200, job_id, jobs[job_id].status,
                  IF jobs[job_id].status = "failed" /\ jobs[job_id].error # Unset
                  THEN jobs[job_id].error ELSE "")

\* the response of a download_file that hands out whatever file is at the
\* output path of the job, in any state
download_file_AnyState(jobs, fs, job_id) ==
    IF ~IsUUID(job_id)
    THEN Response("download", 400, job_id, "", "Invalid job ID")
    ELSE IF job_id \notin DOMAIN jobs
    THEN Response("download", 404, job_id, "", "Job not found")
    ELSE IF jobs[job_id].output_path \notin fs
    THEN Response("download", 404, job_id, jobs[job_id].status, "File not found")
    ELSE Response("download", 200, job_id, jobs[job_id].status, "")

\* the response of download_file
download_file(jobs, fs, job_id) ==
    IF ~IsUUID(job_id)
    THEN Response("download", 400, job_id, "", "Invalid job ID")
    ELSE IF job_id \notin DOMAIN jobs
    THEN Response("download", 404, job_id, "", "Job not found")
    ELSE IF jobs[job_id].status # "completed"
    THEN Response("download", 400, job_id, jobs[job_id].status, "Job status")
    ELSE IF jobs[job_id].output_path \notin fs
    THEN Response("download", 404, job_id, jobs[job_id].status, "File not found")
    ELSE Response("download", 200, job_id, jobs[job_id].status, "")

JobIds == 1..MaxJobs

\* the ids of the status and download requests
QueryIds == JobIds \cup {BadId, NeverId}

JobStatus(j) ==
    /\ resp' = job_status(processing_jobs, j)
    /\ UNCHANGED <<processing_jobs, files, thr, invoked, sent, removed, uploads, rateVars, rl>>

DownloadFile(j) ==
    /\ resp' = download_file(processing_jobs, files, j)
    /\ UNCHANGED <<processing_jobs, files, thr, invoked, sent, removed, uploads, rateVars, rl>>

-----------------------------------------------------------------------------
(* Spec: requests and executor threads, interleaved at every write of the  *)
(* job record.  The clock stands still: all uploads fall in one window.    *)

Init ==
    /\ upload_attempts = EmptyDict
    /\ clock = 0
    /\ admitted = [ip \in IPs |-> <<>>]
    /\ lastCheck = [ip |-> NoIP, now |-> 0, result |-> TRUE]
    /\ calls = 0
    /\ rl = [t \in {} |-> 0]
    /\ InitJobs

\* the four step toggles of the form; a rejected request never reads them
Toggles(rq) ==
    IF Validate(rq.email, rq.file) = "ok"
    THEN [do_ocr : BOOLEAN, add_page_numbers : BOOLEAN,
          compress : BOOLEAN, remove_security : BOOLEAN]
    ELSE {[do_ocr |-> FALSE, add_page_numbers |-> FALSE,
           compress |-> FALSE, remove_security |-> FALSE]}

Upload ==
    \E ip \in {Client}, rq \in Requests :
        /\ uploads < MaxUploads
        /\ Validate(rq.email, rq.file) = "ok" => Cardinality(DOMAIN processing_jobs) < MaxJobs
        /\ \E tg \in Toggles(rq) :
               UploadFile(ip, rq.email, rq.file, tg.do_ocr, tg.add_page_numbers,
                          tg.compress, tg.remove_security)

Executor(j) ==
    \/ ExecStart(j)
    \/ StepUnlock(j)
    \/ StepFix(j)
    \/ StepOcr(j)
    \/ StepPagenum(j)
    \/ StepCompress(j)
    \/ Move(j)
    \/ CompletedStatus(j)
    \/ CompletedAt(j)
    \/ OkMail(j)
    \/ FailStatus(j)
    \/ FailError(j)
    \/ FailMail(j)
    \/ NoOutputStatus(j)
    \/ NoOutputError(j)
    \/ ExceptStatus(j)
    \/ ExceptError(j)
    \/ ExceptMail(j)
    \/ Finally(j)

Next ==
    \/ Upload
    \/ \E j \in JobIds : Executor(j)
    \/ \E j \in QueryIds : JobStatus(j)
    \/ \E j \in QueryIds : DownloadFile(j)

Spec == Init /\ [][Next]_vars

\* SpecFair: the submissions and the executor threads alone (the readers
\* write nothing), where a started thread keeps running: every call it makes
\* returns or raises
NextRun ==
    \/ Upload
    \/ \E j \in JobIds : Executor(j)

Fairness == \A j \in JobIds : WF_vars(Executor(j))

SpecFair == Init /\ [][NextRun]_vars /\ Fairness

-----------------------------------------------------------------------------
(* upload_file of app.py (lines 44-228): the same pipeline run inside the  *)
(* request.  It is replayed on the toggles of a finished job and on the    *)
(* outcomes its step programs had, in a slot of its own.                   *)

\* the slot of the synchronous run: unique_id (line 54) is a fresh uuid
SyncId == MaxJobs + 1

\* fixed_path (line 102): "<unique_id>_fixed.pdf", whatever the upload's name
FixedPath(id) == [job |-> id, pre |-> "fixed", sfx |-> <<>>, ext |-> ".pdf"]

\* what a step program did in the job replayed: the entry the job logged for
\* it, or "missing" when the job never called it
LogEntry(log, name) ==
    IF \E i \in 1..Len(log) : log[i].step = name
    THEN log[CHOOSE i \in 1..Len(log) : log[i].step = name]
    ELSE [step |-> name, outcome |-> "missing", wrote |-> "none"]

\* lines 54-57 and 78-79: the upload is saved, current_file = input_path; code is 0
\* while the handler runs, raised is set when an exception leaves the try
SyncStart(fs, id, ext) ==
    [files |-> fs \cup {Path(id, "", ext)}, current_file |-> Path(id, "", ext),
     input_path |-> Path(id, "", ext), output_path |-> Path(id, "fixed_", ext),
     invoked |-> <<>>, removed |-> <<>>, code |-> 0, error |-> "", raised |-> FALSE]

\* lines 82-99 (keep_input), 151-167, 170-186, 189-204: an optional step;
\* the search for its output is written as in app_async.py
SyncStep(st, enabled, name, tag, keep_input, outcome) ==
    IF st.code # 0 \/ st.raised \/ ~enabled THEN st
    ELSE LET fs1 == Ran(st.files, st.current_file, ToolOutput(st.current_file, tag),
                        outcome = "output")
             e   == IF keep_input THEN KeepInput(st, fs1, Replace(st.current_file, tag))
                    ELSE DropCurrent(st, fs1, Replace(st.current_file, tag))
             st1 == [st EXCEPT !.invoked = Append(@, [step |-> name, outcome |-> outcome])]
         IN  IF outcome = "raise" \/ e.raised
             THEN [st1 EXCEPT !.raised = TRUE]
             ELSE [st1 EXCEPT !.files = e.files, !.removed = @ \o e.removed,
                              !.current_file = e.current_file]

\* lines 127-132 and 144-148: "if current_file != input_path:
\* os.remove(current_file); os.remove(input_path); return ..., 500"
SyncCleanup(st, error) ==
    LET inter == st.current_file # st.input_path
        fs2   == IF inter THEN st.files \ {st.current_file} ELSE st.files
        rem2  == IF inter THEN <<st.current_file>> ELSE <<>>
    IN  IF (inter /\ st.current_file \notin st.files) \/ st.input_path \notin fs2
        THEN [st EXCEPT !.raised = TRUE]
        ELSE [st EXCEPT !.files = fs2 \ {st.input_path},
                        !.removed = @ \o rem2 \o <<st.input_path>>,
                        !.code = 500, !.error = error]

\* lines 101-148: the normalization script, told fixed_path on its stdin
SyncFix(st, id, entry) ==
    IF st.code # 0 \/ st.raised THEN st
    ELSE LET started    == entry.outcome # "raise"
             fixed_path == FixedPath(id)
             auto       == Replace(st.current_file, "-FIXED")
             fs1  == IF entry.wrote = "given"
                     THEN Ran(st.files, st.current_file, fixed_path, TRUE)
                     ELSE Ran(st.files, st.current_file,
                              ToolOutput(st.current_file, "-FIXED"), entry.wrote = "auto")
             st1  == [st EXCEPT !.invoked = Append(@, [step |-> "fix",
                                                        outcome |-> entry.outcome]),
                                !.files = IF started THEN fs1 ELSE @]
             e    == IF auto \in fs1 THEN KeepInput(st, fs1, auto)
                     ELSE KeepInput(st, fs1, fixed_path)
         IN  IF ~started THEN [st1 EXCEPT !.raised = TRUE]
             ELSE IF entry.outcome = "exit" THEN SyncCleanup(st1, "PDF processing failed")
             ELSE IF ~e.found THEN SyncCleanup(st1, "Output file was not created")
             ELSE [st1 EXCEPT !.files = e.files, !.removed = @ \o e.removed,
                              !.current_file = e.current_file]

\* lines 206-220: the result is moved to output_path, the input is removed
\* if it is still there, and the success is returned
SyncFinish(st) ==
    IF st.code # 0 \/ st.raised THEN st
    ELSE IF st.current_file \notin st.files THEN [st EXCEPT !.raised = TRUE]
    ELSE LET fs2 == (st.files \ {st.current_file}) \cup {st.output_path}
         IN  [st EXCEPT !.files = fs2 \ {st.input_path},
                        !.removed = IF st.input_path \in fs2
                                    THEN @ \o <<st.input_path>> ELSE @,
                        !.code = 200]

\* lines 222-226: the except removes the input if it exists and returns 500
SyncExcept(st) ==
    IF ~st.raised THEN st
    ELSE [st EXCEPT !.files = @ \ {st.input_path},
                    !.removed = IF st.input_path \in st.files
                                THEN @ \o <<st.input_path>> ELSE @,
                    !.code = 500, !.error = "exception"]

\* upload_file of app.py on the upload and toggles of thread t, its step
\* programs doing what log says, in the order of the code
app_upload_file(fs, id, t, log) ==
    LET s0 == SyncStart(fs, id, t.input_path.ext)
        s1 == SyncStep(s0, t.remove_security, "unlock", "-unlocked", TRUE,
                       LogEntry(log, "unlock").outcome)
        s2 == SyncFix(s1, id, LogEntry(log, "fix"))
        s3 == SyncStep(s2, t.do_ocr, "ocr", "-OCR", FALSE, LogEntry(log, "ocr").outcome)
        s4 == SyncStep(s3, t.add_page_numbers, "pagenum", "-numbered", FALSE,
                       LogEntry(log, "pagenum").outcome)
        s5 == SyncStep(s4, t.compress, "compress", "-compressed", FALSE,
                       LogEntry(log, "compress").outcome)
    IN  SyncExcept(SyncFinish(s5))

\* the synchronous handler answers the upload job j was given
AppUploadFile(j) ==
    /\ j \in DOMAIN thr /\ thr[j].pc = "returned"
    /\ SyncId \notin DOMAIN thr
    /\ LET t == thr[j]
           r == app_upload_file(files, SyncId, t, invoked[j])
       IN  /\ files' = r.files
           /\ thr' = DictSet(thr, SyncId,
                             [NewThread(r.input_path, r.output_path, "", t.do_ocr,
                                        t.add_page_numbers, t.compress, t.remove_security)
                                EXCEPT !.pc = "returned", !.current_file = r.current_file])
           /\ invoked' = DictSet(invoked, SyncId, r.invoked)
           /\ removed' = DictSet(removed, SyncId, r.removed)
           /\ sent' = DictSet(sent, SyncId, <<>>)
           /\ resp' = Response("sync_upload", r.code, j, "", r.error)
    /\ UNCHANGED <<processing_jobs, uploads, rateVars, rl>>

\* SpecEquiv: the submissions, the executor threads, and the synchronous
\* handler replaying a returned job
NextEquiv ==
    \/ NextRun
    \/ \E j \in JobIds : AppUploadFile(j)

SpecEquiv == Init /\ [][NextEquiv]_vars

-----------------------------------------------------------------------------
(* SpecTwo: two jobs side by side, each in its own thread (lines           *)
(* 397-403).  A step program may never return: subprocess.run has no       *)
(* timeout, so the thread that called it stays in the call.  The status    *)
(* requests write nothing: their answers are read off the state.           *)

TwoIds == 1..MaxTwoJobs

\* the positions of the executor at a subprocess call
StepCalls == {"unlock", "fix", "ocr", "pagenum", "compress"}

\* the submissions: a notify address; the first asks for no optional step,
\* the later ones for all of them
TwoToggles(n) == {[do_ocr |-> b, add_page_numbers |-> b, compress |-> b, remove_security |-> b] : b \in {n > 0}}

TwoUpload ==
    \E tg \in TwoToggles(uploads) :
        /\ uploads < MaxTwoJobs
        /\ UploadFile(Client, "user@example.com", File("doc.pdf", "ok"), tg.do_ocr, tg.add_page_numbers, tg.compress, tg.remove_security)

\* the program called never returns
Hang(j) ==
    /\ j \in DOMAIN thr /\ thr[j].pc \in StepCalls
    /\ thr' = [thr EXCEPT ![j].pc = "hung"]
    /\ UNCHANGED <<processing_jobs, files, invoked, sent, removed, resp, uploads, rateVars, rl>>

NextTwo ==
    \/ TwoUpload
    \/ \E j \in TwoIds : Executor(j)
    \/ \E j \in TwoIds : Hang(j)

FairTwo == \A j \in TwoIds : WF_vars(Executor(j))

SpecTwo == Init /\ [][NextTwo]_vars /\ FairTwo

-----------------------------------------------------------------------------
(* SpecAdmit: the admission path of upload_file alone.  Two identities     *)
(* submit under a moving clock; the executor threads are started but have  *)
(* not run yet.                                                            *)

\* one accepted submission and one the validation rejects
AdmitRequests ==
    [email : {""}, file : {File("doc.pdf", "ok"), File("doc.txt", "ok")}]

AdmitUpload ==
    \E ip \in IPs, rq \in AdmitRequests :
        /\ uploads < MaxAdmitUploads
        /\ UploadFile(ip, rq.email, rq.file, FALSE, FALSE, FALSE, FALSE)

NextAdmit ==
    \/ Tick
    \/ AdmitUpload

SpecAdmit == Init /\ [][NextAdmit]_vars

-----------------------------------------------------------------------------
(* Claims on concurrent calls of check_rate_limit. *)

Occurrences(s, x) == Cardinality({i \in 1..Len(s) : s[i] = x})

\* no call fails on an entry another call removed
C10_NoCrash == \A t \in DOMAIN rl : rl[t].pc # "crashed"

\* at most MAX_UPLOADS_PER_IP admitted calls in any trailing window
C10_AtMost ==
    \A e \in Range(admitted[Client]) \cup {clock} :
        CountInWindow(admitted[Client], e) <= MAX_UPLOADS_PER_IP

\* once no call is running, every admitted timestamp still inside the window
\* is recorded in the list of the identity
C10_NoLost ==
    (\A t \in DOMAIN rl : rl[t].pc = "idle") =>
        \A a \in Range(admitted[Client]) :
            InWindow(a, clock) =>
                /\ Client \in DOMAIN upload_attempts
                /\ Occurrences(upload_attempts[Client], a) >= Occurrences(admitted[Client], a)

\* C10: concurrent calls of check_rate_limit by one identity behave as if
\* each prune-check-append sequence were atomic: at most MAX_UPLOADS_PER_IP
\* are admitted within the window, no admitted timestamp is lost, and no call
\* fails on an entry removed by another call.
C10_AtomicUnit == C10_NoCrash /\ C10_AtMost /\ C10_NoLost

-----------------------------------------------------------------------------
(* Claims on the job pipeline (Spec). *)

Jobs == DOMAIN processing_jobs

Terminal == {"completed", "failed"}

Rank(status) ==
    CASE status = "queued" -> 0
      [] status = "processing" -> 1
      [] status \in Terminal -> 2

Returned(j) == thr[j].pc = "returned"

\* what the executor saw of the normalization step of job j
FixOutcomes(j) == {invoked[j][i].outcome : i \in {k \in 1..Len(invoked[j]) : invoked[j][k].step = "fix"}}

StepsInvoked(j) == {invoked[j][i].step : i \in 1..Len(invoked[j])}

Kinds(j) == {sent[j][i].kind : i \in 1..Len(sent[j])}

\* C1: the state of a job only moves forward, queued -> processing ->
\* completed or failed, and no write changes a terminal state.
C1_Monotonic ==
    [][\A j \in Jobs :
          /\ Rank(processing_jobs'[j].status) >= Rank(processing_jobs[j].status)
          /\ processing_jobs[j].status \in Terminal =>
                processing_jobs'[j].status = processing_jobs[j].status]_vars

\* a completed job whose success message could not be delivered, after the
\* executor returned: the later steps left the state alone
C1_Witness ==
    \E j \in Jobs :
        /\ Returned(j)
        /\ processing_jobs[j].status = "completed"
        /\ \E i \in 1..Len(sent[j]) : sent[j][i].result = "False"

\* C3 as stated: a submission rejected by the validation creates no job and
\* leaves the recorded attempts of the submitter as they were.
C3_NoSlotConsumed ==
    [][(uploads' = uploads + 1 /\ resp'.code = 400) =>
          /\ processing_jobs' = processing_jobs
          /\ upload_attempts' = upload_attempts]_vars

\* C3, amended: a submission rejected by the validation creates no job,
\* stores no file and starts no executor, but check_rate_limit has already
\* admitted it: the list of the submitter holds one more timestamp, the time
\* of the rejected call.
C3_RejectedKeepsRegistry ==
    [][(uploads' = uploads + 1 /\ resp'.code = 400) =>
          /\ processing_jobs' = processing_jobs
          /\ files' = files
          /\ thr' = thr
          /\ Client \in DOMAIN upload_attempts'
          /\ upload_attempts'[Client] =
                Append(IF Client \in DOMAIN upload_attempts
                       THEN upload_attempts[Client] ELSE <<>>, clock)]_vars

\* a rejected upload after a job was created: one job, two recorded attempts
C3_Witness ==
    /\ resp.req = "upload" /\ resp.code = 400
    /\ Cardinality(Jobs) = 1
    /\ Len(upload_attempts[Client]) = 2

\* C4: when the normalization step fails (non-zero exit, or no output file
\* found), no optional step after it is invoked, the job never completes,
\* and the job is failed when the executor returns.
C4_FatalStopsPipeline ==
    \A j \in Jobs :
        FixOutcomes(j) \cap {"exit", "nothing"} # {} =>
            /\ StepsInvoked(j) \cap {"ocr", "pagenum", "compress"} = {}
            /\ thr[j].pc \notin {"ocr", "pagenum", "compress", "move"}
            /\ processing_jobs[j].status # "completed"
            /\ Returned(j) => processing_jobs[j].status = "failed"

\* a job with optional steps requested whose normalization step exited
\* non-zero although it wrote its output, after the executor returned
C4_Witness ==
    \E j \in Jobs :
        /\ Returned(j)
        /\ FixOutcomes(j) = {"exit"}
        /\ thr[j].do_ocr /\ thr[j].compress
        /\ Replace(thr[j].input_path, "-FIXED") \in files

\* C5: normalization is the only step whose failure ends the job: a job
\* whose executor returned is failed only if the normalization step failed
\* (did not start, exited non-zero, or left no output); whatever the
\* optional steps did, the job is completed.
C5_OnlyNormalizationFatal ==
    \A j \in Jobs :
        Returned(j) /\ processing_jobs[j].status = "failed" =>
            FixOutcomes(j) \cap {"raise", "exit", "nothing"} # {}

C7_AlwaysNotified ==
    \A j \in Jobs :
        (Returned(j) /\ processing_jobs[j].email # "") =>
            /\ processing_jobs[j].status = "completed" => "success" \in Kinds(j)
            /\ processing_jobs[j].status = "failed" => "failure" \in Kinds(j)

\* C8: when the executor returns the uploaded input no longer exists and
\* os.remove was called on it exactly once.
C8_InputDeletedOnce ==
    \A j \in Jobs :
        Returned(j) =>
            /\ thr[j].input_path \notin files
            /\ Occurrences(removed[j], thr[j].input_path) = 1

\* C9: a reader never sees a partly written record: a status or download
\* request that reads state completed finds the result location and the
\* completion time set, and one that reads state failed finds the error
\* detail.
C9_NoPartialRecord ==
    resp.req \in {"status", "download"} /\ resp.job \in Jobs =>
        /\ resp.status = "completed" =>
              /\ processing_jobs[resp.job].output_path # NoPath
              /\ processing_jobs[resp.job].completed_at
        /\ (resp.req = "status" /\ resp.status = "failed") => resp.error # ""

\* C11: a status or download request for a well-formed id that no job was
\* created with is answered "Job not found" (404) and never carries a job
\* status (a string that is not a UUID is answered "Invalid job ID", also
\* without a status); download_file hands the file out only for a job whose
\* state is completed: for a queued, processing or failed job it answers the
\* "Job status" error (400), whether or not a file exists at output_path.
C11_ReadPath ==
    [][(resp' # resp /\ resp'.req \in {"status", "download"}) =>
          LET id == resp'.job
          IN  /\ ~IsUUID(id) =>
                    resp'.code = 400 /\ resp'.error = "Invalid job ID" /\ resp'.status = ""
              /\ (IsUUID(id) /\ id \notin Jobs) =>
                    resp'.code = 404 /\ resp'.error = "Job not found" /\ resp'.status = ""
              /\ (resp'.req = "download" /\ resp'.code = 200) =>
                    id \in Jobs /\ processing_jobs[id].status = "completed"
              /\ (resp'.req = "download" /\ id \in Jobs
                    /\ processing_jobs[id].status # "completed") =>
                    /\ resp'.code = 400 /\ resp'.error = "Job status"
                    /\ resp'.status = processing_jobs[id].status]_vars

\* a download refused for a failed job although the normalization script
\* left a file at the output path of the job
C11_Witness ==
    /\ resp.req = "download" /\ resp.code = 400 /\ resp.status = "failed"
    /\ resp.job \in Jobs
    /\ processing_jobs[resp.job].status = "failed"
    /\ processing_jobs[resp.job].output_path \in files

\* the executor of job j has made a send_email call that was not delivered
MailFailed(j) == \E i \in 1..Len(sent[j]) : sent[j][i].result # "True"

\* C13: a send_email call writes nothing to the job record, and once a call
\* has failed the record is never written again: a completed job stays
\* completed, a failed job stays failed with the error detail it had.
C13_MailFailureKeepsState ==
    /\ [][\A j \in Jobs : sent'[j] # sent[j] => processing_jobs'[j] = processing_jobs[j]]_vars
    /\ [][\A j \in Jobs : MailFailed(j) => processing_jobs'[j] = processing_jobs[j]]_vars
    /\ [](\A j \in Jobs : MailFailed(j) =>
             /\ processing_jobs[j].status \in Terminal
             /\ processing_jobs[j].status = "failed" => processing_jobs[j].error # Unset)

\* a job failed by a non-zero exit of the normalization script whose failure
\* message could not be delivered, after the executor returned
C13_Witness ==
    \E j \in Jobs :
        /\ Returned(j)
        /\ sent[j] = <<[kind |-> "failure", result |-> "False"]>>
        /\ processing_jobs[j].status = "failed"
        /\ processing_jobs[j].error = "stderr"

\* the program of step name ran for job j and wrote its output
Produced(j, name) ==
    \E i \in 1..Len(invoked[j]) : invoked[j][i] = [step |-> name, outcome |-> "output"]

\* p passed through the program of a step, when that step produced an output
Through(j, name, tag, p) == IF Produced(j, name) THEN ToolOutput(p, tag) ELSE p

\* p passed, in the fixed order, through the optional steps after the
\* normalization that produced an output
ThroughOptional(j, p) ==
    Through(j, "compress", "-compressed",
            Through(j, "pagenum", "-numbered", Through(j, "ocr", "-OCR", p)))

\* the files the normalization script can have written for job j: the
\* suffix path next to the file it was given, or the path it was told
NormalizationOutputs(j) ==
    {ToolOutput(Through(j, "unlock", "-unlocked", thr[j].input_path), "-FIXED"),
     thr[j].output_path}

\* the executor of job j has moved its current file to the result location
Moved(j) == thr[j].pc \in {"completed_status", "completed_at", "ok_mail"}
            \/ processing_jobs[j].status = "completed"

\* C14: whatever the toggles and the outcomes of the steps, the file moved
\* to the result location is the output of the normalization script passed,
\* in the fixed order, through exactly the enabled optional steps that
\* produced an output.
C14_ResultIsChain ==
    \A j \in Jobs :
        Moved(j) => \E n \in NormalizationOutputs(j) : thr[j].current_file = ThroughOptional(j, n)

\* the error texts the executor writes into a job record
PipelineErrors == {"stderr", "Output file was not created", "exception"}

\* a step program of job j could not be started
StartFailed(j) == \E i \in 1..Len(invoked[j]) : invoked[j][i].outcome = "raise"

\* C15: an exception raised while the executor runs (a step program that
\* cannot be started, a failing os.remove or shutil.move) always ends in the
\* record of the job: state failed with the text of the exception as error.
\* upload_file answers 200 with the job id in the step that starts the
\* thread; no step of the executor changes a response, and no response of
\* upload_file carries an error of the pipeline.
C15_ErrorsCaptured ==
    /\ \A j \in JobIds :
          (j \in Jobs /\ thr[j].pc = "except_status") ~>
              (/\ j \in Jobs /\ Returned(j)
               /\ processing_jobs[j].status = "failed"
               /\ processing_jobs[j].error = "exception")
    /\ [](\A j \in Jobs :
             (Returned(j) /\ StartFailed(j)) =>
                 /\ processing_jobs[j].status = "failed"
                 /\ processing_jobs[j].error = "exception")
    /\ [][\A j \in JobIds :
             (j \in DOMAIN processing_jobs' /\ j \notin DOMAIN processing_jobs) =>
                 /\ resp' = Response("upload", 200, j, "", "")
                 /\ thr'[j].pc = "start"]_vars
    /\ [][(thr' # thr /\ uploads' = uploads) => resp' = resp]_vars
    /\ [](resp.req = "upload" => resp.error \notin PipelineErrors)

\* a job failed by an exception of os.remove or shutil.move (every step
\* program started), after the executor returned; the last upload_file call
\* was answered 200 with the id of the job
C15_Witness ==
    \E j \in Jobs :
        /\ Returned(j)
        /\ ~StartFailed(j)
        /\ processing_jobs[j].status = "failed"
        /\ processing_jobs[j].error = "exception"
        /\ resp = Response("upload", 200, j, "", "")

\* the place of a step in the fixed order
StepIndex(name) ==
    CASE name = "unlock" -> 1
      [] name = "fix" -> 2
      [] name = "ocr" -> 3
      [] name = "pagenum" -> 4
      [] name = "compress" -> 5

\* whether the toggles of a thread enable a step
Enabled(t, name) ==
    CASE name = "unlock" -> t.remove_security
      [] name = "fix" -> TRUE
      [] name = "ocr" -> t.do_ocr
      [] name = "pagenum" -> t.add_page_numbers
      [] name = "compress" -> t.compress

StepNames == {"unlock", "fix", "ocr", "pagenum", "compress"}

\* C16: the steps a job has invoked so far are in the fixed order unlock,
\* fix, ocr, pagenum, compress, each at most once (so unlock, when invoked,
\* comes before fix and compress, when invoked, is the last); a disabled
\* step is never invoked; fix is invoked with unlock before it when that is
\* enabled, in every run except one that the unlock program aborted by not
\* starting; and a completed job has invoked every enabled step.
C16_FixedOrder ==
    \A j \in Jobs :
        /\ \A a, b \in 1..Len(invoked[j]) :
              a < b => StepIndex(invoked[j][a].step) < StepIndex(invoked[j][b].step)
        /\ \A name \in StepsInvoked(j) : Enabled(thr[j], name)
        /\ ("fix" \in StepsInvoked(j) /\ thr[j].remove_security) => invoked[j][1].step = "unlock"
        /\ (Returned(j) /\ "fix" \notin StepsInvoked(j)) =>
              invoked[j] = <<[step |-> "unlock", outcome |-> "raise"]>>
        /\ processing_jobs[j].status = "completed" =>
              \A name \in StepNames : Enabled(thr[j], name) => name \in StepsInvoked(j)

\* a completed job with the four optional steps enabled: five programs
\* invoked, compress the last
C16_Witness ==
    \E j \in Jobs :
        /\ Returned(j)
        /\ processing_jobs[j].status = "completed"
        /\ Len(invoked[j]) = 5
        /\ invoked[j][1].step = "unlock"
        /\ invoked[j][5].step = "compress"
        /\ invoked[j][3].outcome = "nothing"

\* the positions of the executor whose next statement writes a terminal state
TerminalWrites == {"fail_status", "noout_status", "completed_status", "except_status"}

\* C17: the record of a job is created in state queued in the step that
\* starts its thread, and stays queued until the thread runs; the first
\* statement of the executor writes processing, before any program is
\* invoked; every write of a terminal state finds the job in state
\* processing, so a run makes at most one, and a run that has returned has
\* made one.
C17_OrderedWrites ==
    /\ [](DOMAIN thr = DOMAIN processing_jobs)
    /\ [][\A j \in JobIds :
             (j \in DOMAIN thr' /\ j \notin DOMAIN thr) =>
                 /\ j \in DOMAIN processing_jobs'
                 /\ processing_jobs'[j].status = "queued"
                 /\ thr'[j].pc = "start"]_vars
    /\ [](\A j \in Jobs :
             /\ thr[j].pc = "start" <=> processing_jobs[j].status = "queued"
             /\ thr[j].pc = "start" => invoked[j] = <<>> /\ sent[j] = <<>> /\ removed[j] = <<>>)
    /\ [][\A j \in Jobs :
             thr[j].pc = "start" /\ thr'[j] # thr[j] => processing_jobs'[j].status = "processing"]_vars
    /\ [][\A j \in Jobs :
             (thr[j].pc \in TerminalWrites /\ thr'[j].pc # thr[j].pc) =>
                 /\ processing_jobs[j].status = "processing"
                 /\ processing_jobs'[j].status \in Terminal]_vars
    /\ [][\A j \in Jobs :
             processing_jobs'[j].status # processing_jobs[j].status =>
                 thr[j].pc \in TerminalWrites \cup {"start"}]_vars
    /\ [](\A j \in Jobs : Returned(j) => processing_jobs[j].status \in Terminal)

\* a job that invoked three programs and was then failed by an exception,
\* after the executor returned
C17_Witness ==
    \E j \in Jobs :
        /\ Returned(j)
        /\ processing_jobs[j].status = "failed"
        /\ processing_jobs[j].error = "exception"
        /\ Len(invoked[j]) = 3

\* C18: when a step makes the executor continue with a new file, the file it
\* had before is deleted unless it was the uploaded input; the input, for
\* every accepted filename, leaves the storage only in the final cleanup:
\* no step deletes it and nothing moves it.
C18_InputKeptUntilCleanup ==
    [][\A j \in Jobs :
          /\ (thr'[j].current_file # thr[j].current_file
                /\ thr[j].current_file # thr[j].input_path) =>
                   thr[j].current_file \notin files'
          /\ (thr[j].input_path \in files /\ thr[j].input_path \notin files') =>
                   thr[j].pc = "finally"
          /\ (Occurrences(removed'[j], thr[j].input_path)
                # Occurrences(removed[j], thr[j].input_path)) =>
                   thr[j].pc = "finally"]_vars

\* the files of job j in the storage
FilesOf(j) == {f \in files : f.job = j}

\* C19: when the executor of a failed job has returned, no file of the job
\* is left in the storage: the input and every file the steps produced
\* (the unlocked copy, the output of the normalization) are deleted.
C19_FailedLeavesNothing ==
    \A j \in Jobs :
        (Returned(j) /\ processing_jobs[j].status = "failed") => FilesOf(j) = {}

\* C20: under weak fairness of the executor thread, every job created
\* reaches the state completed or failed and its executor returns; a run
\* that has returned never leaves the job queued or processing.
C20_EventuallyTerminal ==
    /\ \A j \in JobIds :
          (j \in Jobs) ~> (j \in Jobs /\ Returned(j) /\ processing_jobs[j].status \in Terminal)
    /\ [](\A j \in Jobs : Returned(j) => processing_jobs[j].status \in Terminal)
    /\ [](\A j \in Jobs : processing_jobs[j].status \in Terminal => thr[j].pc # "start")

\* a job with no optional step, completed and notified, after the executor
\* returned
C20_Witness ==
    \E j \in Jobs :
        /\ Returned(j)
        /\ processing_jobs[j].status = "completed"
        /\ Len(invoked[j]) = 1
        /\ sent[j] = <<[kind |-> "success", result |-> "True"]>>

\* C23: whenever the record of a job says completed, a file is at the
\* output path of the job: shutil.move has put it there before the state is
\* written and the executor removes nothing of it afterwards; a download
\* request that read the state completed is answered with the file, never
\* with "File not found".
C23_FileBeforeCompleted ==
    /\ \A j \in Jobs :
          (processing_jobs[j].status = "completed" \/ thr[j].pc = "completed_status") =>
              processing_jobs[j].output_path \in files
    /\ (resp.req = "download" /\ resp.status = "completed") => resp.code = 200

\* a download answered with the file while the executor, having written
\* completed, has not yet stored the completion time
C23_Witness ==
    \E j \in Jobs :
        /\ resp = Response("download", 200, j, "completed", "")
        /\ thr[j].pc = "completed_at"
        /\ thr[j].current_file # thr[j].output_path

\* C24: the executor of a job makes at most one send_email call; the call
\* is made after the terminal state was written and its kind is the kind of
\* that state (success for completed, failure for failed), which no later
\* step changes; a job without notify address makes no call.
C24_OneMatchingMail ==
    \A j \in Jobs :
        /\ Len(sent[j]) <= 1
        /\ sent[j] # <<>> =>
              /\ processing_jobs[j].email # ""
              /\ processing_jobs[j].status \in Terminal
              /\ sent[j][1].kind = "success" <=> processing_jobs[j].status = "completed"
              /\ sent[j][1].kind = "failure" <=> processing_jobs[j].status = "failed"
        /\ thr[j].email = processing_jobs[j].email

\* a job failed by an exception whose failure message was delivered, after
\* the executor returned
C24_Witness ==
    \E j \in Jobs :
        /\ Returned(j)
        /\ processing_jobs[j].status = "failed"
        /\ processing_jobs[j].error = "exception"
        /\ sent[j] = <<[kind |-> "failure", result |-> "True"]>>

-----------------------------------------------------------------------------
(* Claims on jobs running side by side (SpecTwo). *)

Hung(j) == thr[j].pc = "hung"

\* C21: a step in which the thread of job j moves leaves the record, the
\* thread, the files and the history of every other job as they were; a
\* job whose step program never returns stays in state processing; while
\* one job hangs, every other job still reaches completed or failed and
\* its executor returns (unless its own program hangs), and a status
\* request can be answered in every state: for the hanging job it says
\* processing.
C21_JobsIsolated ==
    /\ [][\A j \in Jobs : thr'[j] # thr[j] =>
             \A k \in Jobs \ {j} :
                 /\ processing_jobs'[k] = processing_jobs[k]
                 /\ thr'[k] = thr[k]
                 /\ {f \in files' : f.job = k} = FilesOf(k)
                 /\ invoked'[k] = invoked[k] /\ sent'[k] = sent[k]
                 /\ removed'[k] = removed[k]]_vars
    /\ [](\A j \in Jobs : Hung(j) =>
             job_status(processing_jobs, j) = Response("status", 200, j, "processing", ""))
    /\ \A j \in TwoIds : \A k \in TwoIds \ {j} :
          (j \in Jobs /\ k \in Jobs /\ Hung(k)) ~>
              (j \in Jobs /\ (Hung(j) \/ (Returned(j) /\ processing_jobs[j].status \in Terminal)))
    /\ [](\A q \in TwoIds : ENABLED JobStatus(q))

\* the first job hangs in a step program and is reported processing, after
\* the executor of the second job completed it and returned
C21_Witness ==
    /\ DOMAIN processing_jobs = TwoIds
    /\ Hung(1) /\ processing_jobs[1].status = "processing"
    /\ Returned(2) /\ processing_jobs[2].status = "completed"
    /\ job_status(processing_jobs, 1) = Response("status", 200, 1, "processing", "")
    /\ job_status(processing_jobs, 2) = Response("status", 200, 2, "completed", "")

-----------------------------------------------------------------------------
(* Claims on the two pipelines (SpecEquiv). *)

\* the synchronous handler has answered for the upload of job j
Replayed(j) == SyncId \in DOMAIN thr /\ resp.req = "sync_upload" /\ resp.job = j

\* the steps a run called, in order
StepSeq(log) == [i \in 1..Len(log) |-> log[i].step]

\* an artifact whatever the run it belongs to: the delivered result, or a
\* file named by a chain of suffixes put on the path the normalization
\* script was told or on the upload's name
Artifact(f, told, final, done) ==
    IF f = final /\ done THEN <<"final">>
    ELSE IF [f EXCEPT !.sfx = <<>>] = told THEN <<"told", f.sfx>>
    ELSE <<f.pre, f.sfx, f.ext>>

\* what the background job j and the synchronous run left in storage
AsyncLeft(j) ==
    {Artifact(f, thr[j].output_path, thr[j].output_path,
              processing_jobs[j].status = "completed") : f \in FilesOf(j)}
SyncLeft ==
    {Artifact(f, FixedPath(SyncId), thr[SyncId].output_path, resp.code = 200) :
        f \in FilesOf(SyncId)}

\* the artifact each run took as its final output
AsyncPicked(j) ==
    Artifact(thr[j].current_file, thr[j].output_path, thr[j].output_path, FALSE)
SyncPicked ==
    Artifact(thr[SyncId].current_file, FixedPath(SyncId), thr[SyncId].output_path, FALSE)

SameSteps(j) == StepSeq(invoked[SyncId]) = StepSeq(invoked[j])
SameVerdict(j) == (resp.code = 200) <=> (processing_jobs[j].status = "completed")
SamePick(j) == resp.code = 200 => SyncPicked = AsyncPicked(j)
SameStorage(j) == SyncLeft = AsyncLeft(j)

\* C25: on the same toggles and the same outcomes of the step programs, the
\* synchronous pipeline of app.py and the background executor call the same
\* steps in the same order, take the same artifact as the final output,
\* succeed or fail together, and leave the same artifacts in storage.
C25_Equivalent ==
    \A j \in Jobs :
        Replayed(j) => /\ SameSteps(j)
                       /\ SameVerdict(j)
                       /\ SamePick(j)
                       /\ SameStorage(j)

-----------------------------------------------------------------------------
(* Claims on the admission path (SpecAdmit). *)

\* the attempts of ip recorded before a call at time now that are still
\* inside its window
RecordedInWindow(ua, ip, now) == IF ip \in DOMAIN ua THEN Len(KeepRecent(ua[ip], now)) ELSE 0

\* C12: a call of upload_file is answered 429 exactly when the identity has
\* MAX_UPLOADS_PER_IP recorded attempts inside the window, and then it
\* creates no job record, stores no file and starts no thread; an accepted
\* call creates one queued job, stores its input and starts its thread.
\* When one identity alone has made 6 submissions, all of them valid and
\* all in one window, exactly 5 jobs exist and the 6th was answered 429.
C12_DeniedCreatesNothing ==
    /\ [][uploads' = uploads + 1 =>
             LET ip == lastCheck'.ip
             IN  /\ resp'.code = 429 <=>
                       RecordedInWindow(upload_attempts, ip, clock) >= MAX_UPLOADS_PER_IP
                 /\ resp'.code = 429 =>
                       /\ processing_jobs' = processing_jobs
                       /\ files' = files
                       /\ thr' = thr
                 /\ resp'.code = 200 =>
                       /\ DOMAIN processing_jobs' = DOMAIN processing_jobs \cup {resp'.job}
                       /\ resp'.job \notin DOMAIN processing_jobs
                       /\ processing_jobs'[resp'.job].status = "queued"
                       /\ thr'[resp'.job].pc = "start"
                       /\ thr'[resp'.job].input_path \in files']_vars
    /\ []((/\ uploads = MAX_UPLOADS_PER_IP + 1
           /\ clock < RATE_LIMIT_WINDOW
           /\ \A ip \in IPs \ {Client} : admitted[ip] = <<>>
           /\ Cardinality(DOMAIN processing_jobs) = Len(admitted[Client])) =>
              /\ Cardinality(DOMAIN processing_jobs) = MAX_UPLOADS_PER_IP
              /\ resp.req = "upload" /\ resp.code = 429)

\* the sixth valid submission of one identity in one window: five jobs, five
\* recorded attempts, and the answer 429
C12_Witness ==
    /\ uploads = MAX_UPLOADS_PER_IP + 1
    /\ clock < RATE_LIMIT_WINDOW
    /\ resp.req = "upload" /\ resp.code = 429
    /\ Cardinality(DOMAIN processing_jobs) = MAX_UPLOADS_PER_IP
    /\ Cardinality(files) = MAX_UPLOADS_PER_IP
    /\ Len(upload_attempts[Client]) = MAX_UPLOADS_PER_IP

=============================================================================
